---- MODULE Spec2Model ----
(***************************************************************************)
(* Model of sockeye/rerank.py: the Reranker class (construction, rerank,   *)
(* _get_ranking_indices, _sort_by_ranking) and the driver loop rerank(args)*)
(* that reads paired reference / n-best lines and prints one line each.    *)
(*                                                                         *)
(* The sentence-level metrics (sacrebleu.sentence_bleu / sentence_chrf,    *)
(* utils.compute_isometric_score) are external: the scores they return are *)
(* an input of every loop iteration, drawn from ScoreVals.                 *)
(***************************************************************************)
EXTENDS Integers, Sequences, FiniteSets, TLC

\* ---------------------------------------------------------------- bounds
MaxN == 3          \* most hypotheses in one n-best record
MaxLines == 2      \* most (reference, hypotheses) line pairs read

ScoreVals == {1, 5}         \* values a scoring function may return
Vocab == {"", "a"}          \* hypothesis strings ("" is the blank one)
References == {"", "r"}     \* reference lines after strip()

\* ------------------------------------------------------- JSON-like values
\* A decoded JSON value is a number, a string or a list; a dict is a
\* function from its keys to values.
Num(n) == [num |-> n]
Str(s) == [str |-> s]
List(l) == [list |-> l]
None == [none |-> TRUE]

\* isinstance(l, list)
IsList(v) == DOMAIN v = {"list"}

\* ------------------------------------------------- constants.RERANK_*
\* Identifiers are sequences of characters so that startswith is computed.
RERANK_BLEU == <<"b","l","e","u">>
RERANK_CHRF == <<"c","h","r","f">>
RERANK_ISOMETRIC == <<"i","s","o","m","e","t","r","i","c">>
RERANK_ISOMETRIC_RATIO == RERANK_ISOMETRIC \o <<"-","r","a","t","i","o">>
RERANK_ISOMETRIC_DIFF == RERANK_ISOMETRIC \o <<"-","d","i","f","f">>
RERANK_ISOMETRIC_LC == RERANK_ISOMETRIC \o <<"-","l","c">>
RERANK_METRICS == <<RERANK_BLEU, RERANK_CHRF, RERANK_ISOMETRIC_RATIO,
                    RERANK_ISOMETRIC_DIFF, RERANK_ISOMETRIC_LC>>

\* Identifiers handed to the constructor: the five choices, the bare
\* isometric prefix, a proper prefix of it, and an unrelated word.
MetricIds == {RERANK_METRICS[k] : k \in 1..Len(RERANK_METRICS)}
             \cup {RERANK_ISOMETRIC, <<"i","s","o">>,
                   <<"n","o","t","-","a","-","r","e","a","l","-","m","e","t","r","i","c">>}

\* str.startswith
StartsWith(s, prefix) ==
    /\ Len(s) >= Len(prefix)
    /\ SubSeq(s, 1, Len(prefix)) = prefix

\* ------------------------------------------------------------ Reranker
NoError == [type |-> "none"]
\* utils.SockeyeError("Scoring metric '%s' unknown. Choices are: %s")
UnknownMetricError(metric) ==
    [type |-> "SockeyeError", metric |-> metric, choices |-> RERANK_METRICS]
KeyError(key) == [type |-> "KeyError", key |-> key]
IndexError == [type |-> "IndexError"]

\* Reranker.__init__, first if/elif chain: the scoring function bound to
\* the metric, or "" when the constructor raises.
ScoringFunctionChoicesOnly(metric) ==
    IF metric = RERANK_BLEU THEN "sentence_bleu"
    ELSE IF metric = RERANK_CHRF THEN "sentence_chrf"
    ELSE IF \E k \in 3..Len(RERANK_METRICS) : metric = RERANK_METRICS[k]
         THEN "compute_isometric_score"
    ELSE ""
ScoringFunction(metric) ==
    IF metric = RERANK_BLEU THEN "sentence_bleu"
    ELSE IF metric = RERANK_CHRF THEN "sentence_chrf"
    ELSE IF StartsWith(metric, RERANK_ISOMETRIC) THEN "compute_isometric_score"
    ELSE ""

\* Reranker.__init__, second if: the order bound into ranking_indices.
RankingOrderAlwaysDescending(metric) == "descending"
RankingOrder(metric) ==
    IF metric = RERANK_ISOMETRIC_LC THEN "ascending" ELSE "descending"

\* Reranker.__init__: the constructed object, or the error it raises.
Reranker(metric, return_score) ==
    IF ScoringFunction(metric) = ""
    THEN [raised |-> UnknownMetricError(metric)]
    ELSE [raised |-> NoError,
          metric |-> metric,
          return_score |-> return_score,
          scoring_function |-> ScoringFunction(metric),
          order |-> RankingOrder(metric)]

\* np.argsort(scores, kind='mergesort'): 0-based indices of scores in
\* ascending order, equal scores in index order.
ArgSort(scores) ==
    LET n == Len(scores)
        pos(i) == 1 + Cardinality({j \in 1..n :
                        \/ scores[j] < scores[i]
                        \/ scores[j] = scores[i] /\ j < i})
    IN [p \in 1..n |-> (CHOOSE i \in 1..n : pos(i) = p) - 1]

\* a[::-1]
Reversed(s) == [k \in 1..Len(s) |-> s[Len(s) + 1 - k]]

\* Reranker._get_ranking_indices
GetRankingIndicesNeverReversed(scores, order) == ArgSort(scores)
GetRankingIndices(scores, order) ==
    IF order = "descending" THEN Reversed(ArgSort(scores)) ELSE ArgSort(scores)

\* ranksort inside _sort_by_ranking: l[i] for a 0-based i beyond the list
\* raises IndexError.
RanksortRaises(l, ranking) ==
    IsList(l) /\ \E k \in 1..Len(ranking) : ranking[k] + 1 > Len(l.list)
Ranksort(l, ranking) ==
    IF ~IsList(l) THEN l
    ELSE List([k \in 1..Len(ranking) |-> l.list[ranking[k] + 1]])

\* Reranker._sort_by_ranking
SortByRankingTranslationsOnly(hypotheses, ranking) ==
    [key \in DOMAIN hypotheses |->
        IF key = "translations" THEN Ranksort(hypotheses[key], ranking)
        ELSE hypotheses[key]]
SortByRanking(hypotheses, ranking) ==
    [key \in DOMAIN hypotheses |-> Ranksort(hypotheses[key], ranking)]
SortByRankingRaises(hypotheses, ranking) ==
    \E key \in DOMAIN hypotheses : RanksortRaises(hypotheses[key], ranking)

Min(a, b) == IF a < b THEN a ELSE b

\* Line 94: [scores[i] for i in ranking], as JSON numbers.
SortedScoresUnsorted(scores, ranking) ==
    [k \in 1..Len(ranking) |-> Num(scores[k])]
SortedScores(scores, ranking) ==
    [k \in 1..Len(ranking) |-> Num(scores[ranking[k] + 1])]

\* Lines 93-95: the two keys set on the result when return_score is on.
AttachScores(reranked, scores, ranking) ==
    LET sorted == SortedScores(scores, ranking)
    IN [key \in DOMAIN reranked \cup {"scores", "score"} |->
           IF key = "scores" THEN List(sorted)
           ELSE IF key = "score" THEN sorted[1]
           ELSE reranked[key]]

\* Reranker.rerank.  oracle[k] is what the k-th call of the scoring
\* function returns.  The result names the exception raised (NoError when
\* the method returns), the number of scoring calls made, and the locals
\* scores, ranking and the returned dict.
RerankerRerank(self, hypotheses, reference, oracle) ==
    LET isometric == StartsWith(self.metric, RERANK_ISOMETRIC)
        missing ==
            IF isometric /\ "text" \notin DOMAIN hypotheses THEN "text"
            ELSE IF "translations" \notin DOMAIN hypotheses THEN "translations"
            ELSE IF isometric /\ "scores" \notin DOMAIN hypotheses THEN "scores"
            ELSE ""
        failed(raised, calls) ==
            [raised |-> raised, calls |-> calls, scores |-> <<>>,
             ranking |-> <<>>, result |-> None]
    IN
    IF missing # "" THEN failed(KeyError(missing), 0)
    ELSE
    LET n == Len(hypotheses["translations"].list)
        \* zip() stops at the shorter of translations and scores
        calls == IF isometric
                 THEN Min(n, Len(hypotheses["scores"].list))
                 ELSE n
        scores == SubSeq(oracle, 1, calls)
        ranking == GetRankingIndices(scores, self.order)
    IN
    IF SortByRankingRaises(hypotheses, ranking)
    THEN failed(IndexError, calls)
    ELSE IF self.return_score /\ Len(ranking) = 0
    THEN failed(IndexError, calls)
    ELSE [raised |-> NoError, calls |-> calls, scores |-> scores,
          ranking |-> ranking,
          result |-> IF self.return_score
                     THEN AttachScores(SortByRanking(hypotheses, ranking),
                                       scores, ranking)
                     ELSE SortByRanking(hypotheses, ranking)]

\* --------------------------------------------------------------- driver
\* utils.check_condition('translations' in hypotheses, ...)
TranslationsKeyMissing ==
    [type |-> "SockeyeError",
     message |-> "Reranking requires nbest JSON input with 'translations' key present."]

\* Line 139: "if not num_hypotheses > 1"
NothingToRerankOnlyWhenEmpty(num_hypotheses) == ~(num_hypotheses > 0)
NothingToRerank(num_hypotheses) == ~(num_hypotheses > 1)

\* Lines 154-162: the for loop over range(num_hypotheses), entered at h
\* (0-based): the value best_hypothesis holds when the loop ends, or the
\* IndexError of translations[h] past the end of the ranked list.
RECURSIVE ForwardScan(_, _, _)
ForwardScan(translations, h, num_hypotheses) ==
    IF h + 1 > Len(translations)
    THEN [raised |-> IndexError, best_hypothesis |-> ""]
    ELSE IF translations[h + 1].str = "" /\ h + 1 < num_hypotheses
    THEN ForwardScan(translations, h + 1, num_hypotheses)
    ELSE [raised |-> NoError, best_hypothesis |-> translations[h + 1].str]

\* Lines 146-162: the line printed in output_best mode, or the IndexError
\* raised on the way.
BestHypothesisScanFirst(args, reranked_hypotheses, reference, num_hypotheses) ==
    LET translations == reranked_hypotheses["translations"].list
        top == IF num_hypotheses # 0 THEN translations[1].str ELSE ""
        scanned == IF top = "" /\ args.output_best_non_blank /\ num_hypotheses > 1
                   THEN ForwardScan(translations, 0, num_hypotheses)
                   ELSE [raised |-> NoError, best_hypothesis |-> top]
    IN IF num_hypotheses # 0 /\ Len(translations) = 0
       THEN [raised |-> IndexError, best_hypothesis |-> ""]
       ELSE IF scanned.raised = NoError /\ scanned.best_hypothesis = ""
               /\ args.output_reference_instead_of_blank
       THEN [raised |-> NoError, best_hypothesis |-> reference]
       ELSE scanned
BestHypothesis(args, reranked_hypotheses, reference, num_hypotheses) ==
    LET translations == reranked_hypotheses["translations"].list
        top == IF num_hypotheses # 0 THEN translations[1].str ELSE ""
        substituted == IF top = "" /\ args.output_reference_instead_of_blank
                       THEN reference
                       ELSE top
    IN IF num_hypotheses # 0 /\ Len(translations) = 0
       THEN [raised |-> IndexError, best_hypothesis |-> ""]
       ELSE IF substituted = "" /\ args.output_best_non_blank /\ num_hypotheses > 1
       THEN ForwardScan(translations, 0, num_hypotheses)
       ELSE [raised |-> NoError, best_hypothesis |-> substituted]

\* Lines 131-166: one iteration of the for loop.  The result names the
\* exception raised (NoError when the line is printed), the scoring calls
\* made for the record, and the locals of the iteration.
LoopBody(args, reranker, reference, hypotheses, oracle) ==
    LET failed(raised, calls) ==
            [raised |-> raised, calls |-> calls, scores |-> <<>>,
             ranking |-> <<>>, reranked_hypotheses |-> None, printed |-> None]
    IN
    IF "translations" \notin DOMAIN hypotheses
    THEN failed(TranslationsKeyMissing, 0)
    ELSE
    LET num_hypotheses == Len(hypotheses["translations"].list)
        call == RerankerRerank(reranker, hypotheses, reference, oracle)
        noop == NothingToRerank(num_hypotheses)
    IN
    IF ~noop /\ call.raised # NoError
    THEN failed(call.raised, call.calls)
    ELSE
    LET reranked_hypotheses == IF noop THEN hypotheses ELSE call.result
        best == BestHypothesis(args, reranked_hypotheses, reference,
                               num_hypotheses)
    IN
    IF args.output_best /\ best.raised # NoError
    THEN failed(best.raised, IF noop THEN 0 ELSE call.calls)
    ELSE
       [raised |-> NoError,
        calls |-> IF noop THEN 0 ELSE call.calls,
        scores |-> IF noop THEN <<>> ELSE call.scores,
        ranking |-> IF noop THEN <<>> ELSE call.ranking,
        reranked_hypotheses |-> reranked_hypotheses,
        printed |-> IF args.output_best
                    THEN Str(best.best_hypothesis)
                    ELSE [json |-> reranked_hypotheses]]

\* Where control goes after the body: an exception leaves the loop and the
\* function, otherwise the line has been printed.
AfterLoopBodySkipsRecord(raised) ==
    IF raised # NoError THEN "loop" ELSE "printed"
AfterLoopBody(raised) ==
    IF raised # NoError THEN "raised" ELSE "printed"

\* --------------------------------------------------------------- inputs
\* Command lines: the two fallback switches are read in output_best mode
\* only, so they are varied only there.
Args ==
    {a \in [metric : MetricIds, return_score : BOOLEAN, output_best : BOOLEAN,
            output_reference_instead_of_blank : BOOLEAN,
            output_best_non_blank : BOOLEAN] :
        a.output_best \/ (~a.output_reference_instead_of_blank
                          /\ ~a.output_best_non_blank)}

\* Upstream model scores, one list per hypothesis, and an additional list
\* field; both carry their position so that a reordering is visible.
UpstreamScores(n) == [k \in 1..n |-> List(<<Num(10 * k)>>)]
ExtraList(n) == [k \in 1..n |-> Num(100 + k)]

\* The decoded line with translations t, the source text if hasText, a
\* scores list of scoresLen entries and an additional list of extraLen
\* entries (a length of -1: the key is absent); sentence_id comes with scores.
NBestRecord(t, hasText, scoresLen, extraLen) ==
    [key \in {"translations"}
             \cup (IF hasText THEN {"text"} ELSE {})
             \cup (IF scoresLen >= 0 THEN {"scores", "sentence_id"} ELSE {})
             \cup (IF extraLen >= 0 THEN {"extra"} ELSE {}) |->
        IF key = "translations" THEN List(t)
        ELSE IF key = "text" THEN Str("src")
        ELSE IF key = "scores" THEN List(UpstreamScores(scoresLen))
        ELSE IF key = "sentence_id" THEN Num(0)
        ELSE List(ExtraList(extraLen))]

\* Decoded n-best lines with n hypotheses: translations alone; with the
\* source text; with text, scores and sentence_id; the same with a list
\* field as long as, one longer or one shorter than translations; and with
\* a scores list one shorter than translations.
RecordsOfSize(n) ==
    UNION {
        {NBestRecord(t, FALSE, -1, -1),
         NBestRecord(t, TRUE, -1, -1),
         NBestRecord(t, TRUE, n, -1),
         NBestRecord(t, TRUE, n, n),
         NBestRecord(t, TRUE, n, n + 1),
         NBestRecord(t, TRUE, n, n - 1),
         NBestRecord(t, TRUE, n - 1, -1)}
        : t \in [1..n -> {Str(s) : s \in Vocab}]}

\* Every decoded line the loop may read, one without translations included.
NBestRecords ==
    UNION {RecordsOfSize(n) : n \in 0..MaxN}
    \cup {[key \in {"text", "sentence_id"} |->
              IF key = "text" THEN Str("src") ELSE Num(0)]}

\* ---------------------------------------------------------------- state
VARIABLES
    args,                 \* argparse.Namespace handed to rerank(args)
    reranker,             \* the Reranker, None before construction
    pc,                   \* "start", "loop", "printed", "closed", "raised"
    i,                    \* enumerate(zip(...), 1) index of the last pair read
    reference,            \* locals of the current iteration: the stripped
                          \* reference line ("" while unbound),
    hypotheses,           \* the decoded record (None while unbound),
    scores,               \* the scores and the ranking computed by
    ranking,              \* Reranker.rerank (empty when it computed none),
    reranked_hypotheses,  \* and its result (None while unbound)
    printed,              \* the line given to print() in this iteration
    calls,                \* scoring-function calls made for this record
    written,              \* output stream: written[k] is the i whose
                          \* iteration printed the k-th line
    err                   \* the exception that left rerank(args)

locals == <<reference, hypotheses, scores, ranking, reranked_hypotheses,
            printed, calls>>
vars == <<args, reranker, pc, i, reference, hypotheses, scores, ranking,
          reranked_hypotheses, printed, calls, written, err>>

Init ==
    /\ args \in Args
    /\ reranker = None
    /\ pc = "start"
    /\ i = 0
    /\ reference = ""
    /\ hypotheses = None
    /\ scores = <<>>
    /\ ranking = <<>>
    /\ reranked_hypotheses = None
    /\ printed = None
    /\ calls = 0
    /\ written = <<>>
    /\ err = NoError

\* Line 125: reranker = Reranker(args.metric, ...)
Construct ==
    /\ pc = "start"
    /\ LET r == Reranker(args.metric, args.return_score)
       IN IF r.raised # NoError
          THEN /\ pc' = "raised"
               /\ err' = r.raised
               /\ UNCHANGED reranker
          ELSE /\ pc' = "loop"
               /\ reranker' = r
               /\ UNCHANGED err
    /\ UNCHANGED <<args, i, written>>
    /\ UNCHANGED locals

\* Lines 130-166: zip yields the next pair and the body runs on it.
ProcessLine ==
    /\ pc = "loop"
    /\ i < MaxLines
    /\ \E ref \in References, hyp \in NBestRecords :
         \E oracle \in [1..(IF "translations" \in DOMAIN hyp
                            THEN Len(hyp["translations"].list)
                            ELSE 0) -> ScoreVals] :
            LET body == LoopBody(args, reranker, ref, hyp, oracle)
            IN /\ i' = i + 1
               /\ reference' = ref
               /\ hypotheses' = hyp
               /\ scores' = body.scores
               /\ ranking' = body.ranking
               /\ reranked_hypotheses' = body.reranked_hypotheses
               /\ printed' = body.printed
               /\ calls' = body.calls
               /\ pc' = AfterLoopBody(body.raised)
               /\ err' = body.raised
               /\ written' = IF body.raised = NoError
                             THEN Append(written, i')
                             ELSE written
    /\ UNCHANGED <<args, reranker>>

\* The body is done: control is back at the for statement and the locals
\* of the finished iteration are dead.
EndIteration ==
    /\ pc = "printed"
    /\ pc' = "loop"
    /\ reference' = ""
    /\ hypotheses' = None
    /\ scores' = <<>>
    /\ ranking' = <<>>
    /\ reranked_hypotheses' = None
    /\ printed' = None
    /\ calls' = 0
    /\ UNCHANGED <<args, reranker, i, written, err>>

\* Lines 168-169: one of the streams is exhausted; the output is closed.
Close ==
    /\ pc = "loop"
    /\ pc' = "closed"
    /\ UNCHANGED <<args, reranker, i, written, err>>
    /\ UNCHANGED locals

Next == Construct \/ ProcessLine \/ EndIteration \/ Close

Spec == Init /\ [][Next]_vars

\* ---------------------------------------------------------- properties
\* Number of hypotheses of the record of the current iteration.
N == Len(hypotheses["translations"].list)

\* The iteration printed its line after Reranker.rerank ranked the record.
HasRanking == pc = "printed" /\ N >= 2

\* Computed score of the hypothesis at output position k.
ScoreAt(k) == scores[ranking[k] + 1]

\* Output position of input hypothesis a (0-based index a).
PositionOf(a) == CHOOSE k \in 1..Len(ranking) : ranking[k] = a

\* The identifier has the nine characters of the isometric prefix in front.
HasIsometricPrefix(m) ==
    /\ Len(m) >= 9
    /\ \A k \in 1..9 : m[k] = RERANK_ISOMETRIC[k]

\* C1: hypotheses with equal computed scores keep their input order in the
\* output, whatever the direction of the metric.
C1_StableInBothDirections ==
    HasRanking =>
        \A a, b \in 1..Len(scores) :
            (a < b /\ scores[a] = scores[b])
                => PositionOf(a - 1) < PositionOf(b - 1)

\* C2: read in output order the computed scores never increase, except
\* under the length-controlled isometric metric where they never decrease.
C2_DirectionByMetric ==
    HasRanking =>
        \A k \in 1..(Len(ranking) - 1) :
            IF args.metric = RERANK_ISOMETRIC_LC
            THEN ScoreAt(k) <= ScoreAt(k + 1)
            ELSE ScoreAt(k) >= ScoreAt(k + 1)

C2_Witness ==
    /\ HasRanking
    /\ args.metric = RERANK_ISOMETRIC_LC
    /\ scores = <<5, 1, 5>>
    /\ ranking = <<1, 0, 2>>

\* Key of the record holds a list as long as translations.
IsParallelList(key) ==
    /\ IsList(hypotheses[key])
    /\ Len(hypotheses[key].list) = N

\* The result holds under key one element of the input list per position
\* of the ranking, the one the ranking names.
SelectedByRanking(key) ==
    /\ key \in DOMAIN reranked_hypotheses
    /\ IsList(reranked_hypotheses[key])
    /\ Len(reranked_hypotheses[key].list) = Len(ranking)
    /\ \A j \in 1..Len(ranking) :
          reranked_hypotheses[key].list[j] = hypotheses[key].list[ranking[j] + 1]

Occurrences(l, s) == Cardinality({k \in 1..Len(l) : l[k] = Str(s)})

\* C4: the printed record has as many translations as the input, each
\* string as often as in the input, and a ranking is a bijection on 0..N-1,
\* whatever the record and the metric.
C4_TranslationsPermuted ==
    pc = "printed" =>
        /\ Len(reranked_hypotheses["translations"].list) = N
        /\ \A s \in Vocab :
              Occurrences(reranked_hypotheses["translations"].list, s)
                  = Occurrences(hypotheses["translations"].list, s)
        /\ N >= 2 => /\ Len(ranking) = N
                     /\ {ranking[k] : k \in 1..N} = 0..(N - 1)

\* C5: a record of zero or one hypotheses is printed as it was read, with
\* nothing attached, and no scoring call is made for it.
C5_NoOpOnDegenerateInput ==
    (pc = "printed" /\ N <= 1) =>
        /\ reranked_hypotheses = hypotheses
        /\ calls = 0
        /\ ~args.output_best => printed = [json |-> hypotheses]

C5_Witness ==
    /\ pc = "printed"
    /\ N = 1
    /\ args.return_score
    /\ args.metric = RERANK_ISOMETRIC_LC
    /\ "text" \notin DOMAIN hypotheses

\* Largest / smallest of the computed scores.
MaxScore == CHOOSE x \in {scores[k] : k \in 1..Len(scores)} :
                \A k \in 1..Len(scores) : scores[k] <= x
MinScore == CHOOSE x \in {scores[k] : k \in 1..Len(scores)} :
                \A k \in 1..Len(scores) : scores[k] >= x

\* C6: with score attachment the result holds under scores the computed
\* scores in ranked order and under score the first of them, the largest
\* computed score (the smallest under the length-controlled metric);
\* without it the result has exactly the keys of the input.
C6_ScoreAttachment ==
    HasRanking =>
        IF args.return_score
        THEN /\ DOMAIN reranked_hypotheses = DOMAIN hypotheses \cup {"scores", "score"}
             /\ IsList(reranked_hypotheses["scores"])
             /\ Len(reranked_hypotheses["scores"].list) = Len(ranking)
             /\ \A k \in 1..Len(ranking) :
                   reranked_hypotheses["scores"].list[k] = Num(ScoreAt(k))
             /\ reranked_hypotheses["score"] = reranked_hypotheses["scores"].list[1]
             /\ reranked_hypotheses["score"] =
                   IF args.metric = RERANK_ISOMETRIC_LC
                   THEN Num(MinScore) ELSE Num(MaxScore)
        ELSE DOMAIN reranked_hypotheses = DOMAIN hypotheses

C6_Witness ==
    /\ HasRanking
    /\ args.return_score
    /\ DOMAIN hypotheses = {"translations"}
    /\ scores = <<1, 5, 1>>
    /\ ranking = <<1, 2, 0>>
    /\ reranked_hypotheses["scores"] = List(<<Num(5), Num(1), Num(1)>>)
    /\ reranked_hypotheses["score"] = Num(5)

\* Ranked translations of the printed record, as plain strings.
Ranked == [k \in 1..Len(reranked_hypotheses["translations"].list) |->
              reranked_hypotheses["translations"].list[k].str]

\* C7: in best-only mode the printed line is the top hypothesis if it is
\* not blank; else the reference if substitution is on and the reference is
\* not blank; else the first non-blank hypothesis in ranked order if the
\* forward scan is on; else a blank line.
C7_FallbackChain ==
    (pc = "printed" /\ args.output_best) =>
        LET useReference == args.output_reference_instead_of_blank
                            /\ reference # ""
            nonBlank == {k \in 1..Len(Ranked) : Ranked[k] # ""}
        IN IF Len(Ranked) >= 1 /\ Ranked[1] # "" THEN printed = Str(Ranked[1])
           ELSE IF useReference THEN printed = Str(reference)
           ELSE IF args.output_best_non_blank /\ nonBlank # {}
                THEN \E k \in nonBlank :
                        /\ \A j \in nonBlank : k <= j
                        /\ printed = Str(Ranked[k])
           ELSE printed = Str("")

C7_Witness ==
    /\ pc = "printed"
    /\ args.output_best
    /\ ~args.output_reference_instead_of_blank
    /\ args.output_best_non_blank
    /\ N = 3
    /\ Ranked = <<"", "", "a">>
    /\ printed = Str("a")

\* C8: construction raises exactly for the identifiers that are neither
\* the BLEU one, nor the ChrF one, nor prefixed by the isometric prefix;
\* the error lists the choices and comes before any line is read or scored.
C8_UnknownMetricRejected ==
    pc # "start" =>
        LET recognized == \/ args.metric = RERANK_BLEU
                          \/ args.metric = RERANK_CHRF
                          \/ HasIsometricPrefix(args.metric)
        IN IF recognized
           THEN /\ reranker # None
                /\ reranker.metric = args.metric
           ELSE /\ reranker = None
                /\ pc = "raised"
                /\ err.type = "SockeyeError"
                /\ err.choices = RERANK_METRICS
                /\ i = 0
                /\ calls = 0
                /\ written = <<>>

C8_Witness ==
    /\ pc = "raised"
    /\ reranker = None
    /\ Len(args.metric) = 17
    /\ err = UnknownMetricError(args.metric)

\* C9: every field of the input that is not a list as long as translations
\* is in the result with the value it had in the input.
C9_OtherFieldsUnchanged ==
    HasRanking =>
        \A key \in DOMAIN hypotheses :
            ~IsParallelList(key)
                => /\ key \in DOMAIN reranked_hypotheses
                   /\ reranked_hypotheses[key] = hypotheses[key]

\* The record lacks a field the metric needs.
MissingRequiredField ==
    \/ "translations" \notin DOMAIN hypotheses
    \/ /\ HasIsometricPrefix(args.metric)
       /\ N >= 2
       /\ ("text" \notin DOMAIN hypotheses \/ "scores" \notin DOMAIN hypotheses)

\* C10: the k-th line of the output is printed by the iteration on the
\* k-th pair; the output has one line per pair read, less the pair whose
\* processing raised; a record lacking a required field is never printed.
C10_LineSynchronised ==
    /\ \A k \in 1..Len(written) : written[k] = k
    /\ pc \in {"loop", "printed", "closed"} => Len(written) = i
    /\ (pc = "raised" /\ reranker # None) => (i >= 1 /\ Len(written) = i - 1)
    /\ pc = "printed" => ~MissingRequiredField
    /\ (pc = "raised" /\ reranker # None /\ MissingRequiredField)
          => err.type \in {"SockeyeError", "KeyError"}

C10_Witness ==
    /\ pc = "raised"
    /\ i = 2
    /\ written = <<1>>
    /\ "translations" \in DOMAIN hypotheses
    /\ "text" \notin DOMAIN hypotheses
    /\ err = KeyError("text")

====
